---------------------------- MODULE Spec2Model ----------------------------
(***************************************************************************)
(* A model of ct-visualizer: the volume builder (helpers/dcm_manager.py),  *)
(* the session model (model/model.py) and the controller's handlers        *)
(* (controllers/main_controller.py), with the part of the widgets          *)
(* (views/projection_view.py) whose state the handlers read.               *)
(*                                                                         *)
(* Conventions.                                                            *)
(*  - A numpy array is a record [shape, at]: shape is the tuple of its     *)
(*    dimensions, at maps every 0-based index tuple to a sample.           *)
(*  - Python's None is the empty tuple <<>> where a tuple is expected, and *)
(*    NoneArr where an array is expected.                                  *)
(*  - Lengths are in tenths of a millimetre, so that a product of two      *)
(*    spacings is a whole number of hundredths of mm2. A spacing is <<v>>, *)
(*    or <<>> for the None of an element the data set does not hold.       *)
(*  - A dict is the sequence of its <<key, value>> pairs in insertion      *)
(*    order; formatted values are the strings Python's f-strings produce.  *)
(***************************************************************************)
EXTENDS Integers, Sequences, FiniteSets, TLC

(***************************************************************************)
(* Bounds of the model.                                                    *)
(***************************************************************************)
\* slices have between 1 and MaxDim rows, and between 1 and MaxDim columns
MaxDim == 2

\* the builder is tried on series of at most MaxSlices slices
MaxSlices == 3

\* the user opens series of at most MaxLoadSlices slices
MaxLoadSlices == 2

\* the builder is tried with rot_k in -MaxRot..MaxRot
MaxRot == 5

\* the user puts the ROI at the pixels 0..MaxRoiX of the first axis, with a
\* footprint of 0..MaxRoiW pixels by one pixel
MaxRoiX == 0

MaxRoiW == 1

(***************************************************************************)
(* Python and numpy, as far as the program uses them.                      *)
(***************************************************************************)
NoneArr == [shape |-> <<>>, at |-> <<>>]

IsNoneArr(a) == a.shape = <<>>

\* the outcome of a call: a value, or the exception it raised
Ok(v) == [ok |-> TRUE, err |-> "", val |-> v]

Raise(e) == [ok |-> FALSE, err |-> e, val |-> NoneArr]

\* seq[i] of Python for an index in -n..n-1 (n the length)
PyIndex(i, n) == IF i < 0 THEN i + n ELSE i

\* the indices of a 2-d array of shape (a, b)
Idx2(a, b) == (0 .. a - 1) \X (0 .. b - 1)

\* the 2-d array of shape (a, b) with the samples at
Arr2(a, b, at) == [shape |-> <<a, b>>, at |-> at]

\* np.rot90(m, k) of a 2-d array: k is taken modulo 4, and the array is
\* turned counter-clockwise by that many quarter turns
Rot90(m, k) ==
    LET a == m.shape[1]
        b == m.shape[2]
        kk == k % 4
    IN  CASE kk = 0 -> m
          [] kk = 1 -> Arr2(b, a, [p \in Idx2(b, a) |-> m.at[<<p[2], b - 1 - p[1]>>]])
          [] kk = 2 -> Arr2(a, b, [p \in Idx2(a, b) |-> m.at[<<a - 1 - p[1], b - 1 - p[2]>>]])
          [] OTHER  -> Arr2(b, a, [p \in Idx2(b, a) |-> m.at[<<a - 1 - p[2], p[1]>>]])

\* numpy's rule for target[...] = value: every dimension of the value is
\* the target's, or 1 (and is then repeated)
CanBroadcast(vshape, tshape) ==
    /\ vshape[1] \in {1, tshape[1]}
    /\ vshape[2] \in {1, tshape[2]}

Broadcast(v, tshape) ==
    Arr2(tshape[1], tshape[2],
         [p \in Idx2(tshape[1], tshape[2]) |->
            v.at[<<IF v.shape[1] = 1 THEN 0 ELSE p[1], IF v.shape[2] = 1 THEN 0 ELSE p[2]>>]])

(***************************************************************************)
(* The slice source: a series is a sequence of data sets, sorted by slice  *)
(* location. The sample at (x, y) of the i-th slice encodes i, x and y, so *)
(* every sample of a series is different from every other.                 *)
(***************************************************************************)
Enc(i, x, y) == (i - 1) * MaxDim * MaxDim + x * MaxDim + y + 1

Shapes == (1 .. MaxDim) \X (1 .. MaxDim)

PixelArray(i, shape) ==
    Arr2(shape[1], shape[2], [p \in Idx2(shape[1], shape[2]) |-> Enc(i, p[1], p[2])])

ShapeSeqs == UNION {[1 .. n -> Shapes] : n \in 0 .. MaxSlices}

(***************************************************************************)
(* helpers/dcm_manager.py: the volume builder                              *)
(***************************************************************************)
\* a forgotten modulus: only 1, 2 and 3 turn the slice
RotatedSliceNoMod(pixel_array, rot_k) ==
    IF rot_k \in {1, 2, 3} THEN Rot90(pixel_array, rot_k) ELSE pixel_array

\* the slice as it is inserted: lines 44-49
RotatedSlice(pixel_array, rot_k) ==
    IF rot_k % 4 # 0 THEN Rot90(pixel_array, rot_k) ELSE pixel_array

\* lines 41-51, for a series that has a middle slice
BuildNonEmpty(dcm_files, rot_k) ==
    LET z_size == Len(dcm_files)
        mid    == dcm_files[(z_size \div 2) + 1].pixel_array
        x_size == mid.shape[1]
        y_size == mid.shape[2]
        img(z) == RotatedSlice(dcm_files[z + 1].pixel_array, rot_k)
        \* the slice whose assignment to matrix_3d[:, :, -z] is the last
        \* one to write index k
        src(k) == CHOOSE z \in 0 .. z_size - 1 :
                    /\ PyIndex(-z, z_size) = k
                    /\ \A z2 \in z + 1 .. z_size - 1 : PyIndex(-z2, z_size) # k
    IN  IF \E z \in 0 .. z_size - 1 : ~CanBroadcast(img(z).shape, <<x_size, y_size>>)
        THEN Raise("ValueError")
        ELSE Ok([shape |-> <<x_size, y_size, z_size>>,
                 at |-> [p \in (0 .. x_size - 1) \X (0 .. y_size - 1) \X (0 .. z_size - 1) |->
                           IF \E z \in 0 .. z_size - 1 : PyIndex(-z, z_size) = p[3]
                           THEN Broadcast(img(src(p[3])), <<x_size, y_size>>).at[<<p[1], p[2]>>]
                           ELSE 0]])

\* an empty series taken for a volume without slices
GetCtModelAsMatrixEmptyOk(dcm_files, rot_k) ==
    IF Len(dcm_files) = 0
    THEN Ok([shape |-> <<0, 0, 0>>, at |-> <<>>])
    ELSE BuildNonEmpty(dcm_files, rot_k)

\* get_ct_model_as_matrix: dcm_files[z_size // 2] of an empty list raises
GetCtModelAsMatrix(dcm_files, rot_k) ==
    IF Len(dcm_files) = 0
    THEN Raise("IndexError")
    ELSE BuildNonEmpty(dcm_files, rot_k)


(***************************************************************************)
(* Formatting: the strings the program's f-strings produce                 *)
(***************************************************************************)
\* f"{x:.2f}" for x = q / 100, q >= 0
Fmt2(q) ==
    ToString(q \div 100) \o "." \o (IF q % 100 < 10 THEN "0" ELSE "") \o ToString(q % 100)

\* str() of a pydicom decimal given in tenths
FmtTenths(t) == ToString(t \div 10) \o "." \o ToString(t % 10)

\* str() of an element that dataset.get() found, or of the None it returned
PyStr(opt) == IF opt = <<>> THEN "None" ELSE opt[1]

\* str.upper() and str.capitalize() on the values the headers hold
PyUpper(s) ==
    CASE s = "None" -> "NONE"
      [] s = "Doe^Jane" -> "DOE^JANE"
      [] OTHER -> s

PyCapitalize(s) ==
    CASE s = "CHEST" -> "Chest"
      [] s = "f" -> "F"
      [] OTHER -> s

(***************************************************************************)
(* Dicts: sequences of <<key, value>> in insertion order                   *)
(***************************************************************************)
HasKey(md, k) == \E i \in 1 .. Len(md) : md[i][1] = k

Get(md, k) == md[CHOOSE i \in 1 .. Len(md) : md[i][1] = k][2]

\* d[k] = v of a dict that moves a key it is given again to the end
PutLast(md, k, v) ==
    Append(SelectSeq(md, LAMBDA e : e[1] # k), <<k, v>>)

\* d[k] = v
Put(md, k, v) ==
    IF HasKey(md, k)
    THEN [i \in 1 .. Len(md) |-> IF md[i][1] = k THEN <<k, v>> ELSE md[i]]
    ELSE Append(md, <<k, v>>)

RECURSIVE PutAll(_, _)
\* for k, v in partial.items(): d[k] = v
PutAll(md, partial) ==
    IF partial = <<>> THEN md
    ELSE PutAll(Put(md, partial[1][1], partial[1][2]), Tail(partial))

(***************************************************************************)
(* model/model.py                                                          *)
(***************************************************************************)
XY == "XY"
XZ == "XZ"
YZ == "YZ"

\* helpers/enums.py: Plain
Plain == {XY, XZ, YZ}

\* ProjectionModel.__init__
NewProjectionModel(plain) ==
    [plain |-> plain,
     anatomical_plane |-> "None",
     projection_orientation |-> <<>>,
     slices_count |-> 0,
     current_slice_num |-> 0,
     current_slice_image |-> NoneArr,
     slices_width |-> 0,
     slices_height |-> 0,
     slice_thickness |-> <<0>>,
     col_spacing |-> <<0>>,
     row_spacing |-> <<0>>,
     image_metadata |-> <<>>,
     roi_metadata |-> <<>>,
     prev_roi_pix_size |-> <<0, 0>>]

\* ProjectionModel.set_shape
SetShape(pm, width, height, depth) ==
    [pm EXCEPT !.slices_width = width, !.slices_height = height, !.slices_count = depth]

\* ProjectionModel.set_spacings
SetSpacings(pm, col_spacing, row_spacing, thickness) ==
    [pm EXCEPT !.col_spacing = col_spacing, !.row_spacing = row_spacing,
               !.slice_thickness = thickness]

\* ProjectionModel.set_current_slice
SetCurrentSlice(pm, img, n) ==
    [pm EXCEPT !.current_slice_image = img, !.current_slice_num = n]

\* ProjectionModel.update_img_metadata
UpdateImgMetadata(pm, metadata) ==
    [pm EXCEPT !.image_metadata = PutAll(pm.image_metadata, metadata)]

\* ProjectionModel.update_roi_metadata
UpdateRoiMetadata(pm, data) ==
    [pm EXCEPT !.roi_metadata = PutAll(pm.roi_metadata, data)]

\* the projections get their shapes in the wrong order: XZ and YZ swapped
SetModelMatrixSwapped(S, matrix_3d) ==
    LET x_size == matrix_3d.shape[1]
        y_size == matrix_3d.shape[2]
        z_size == matrix_3d.shape[3]
    IN  [S EXCEPT !.matrix_3d = matrix_3d,
                  !.proj = [p \in DOMAIN S.proj |->
                              CASE p = XY -> SetShape(S.proj[p], x_size, y_size, z_size)
                                [] p = XZ -> SetShape(S.proj[p], y_size, z_size, x_size)
                                [] p = YZ -> SetShape(S.proj[p], x_size, z_size, y_size)
                                [] OTHER  -> S.proj[p]]]

\* Model.set_model_matrix
SetModelMatrix(S, matrix_3d) ==
    LET x_size == matrix_3d.shape[1]
        y_size == matrix_3d.shape[2]
        z_size == matrix_3d.shape[3]
    IN  [S EXCEPT !.matrix_3d = matrix_3d,
                  !.proj = [p \in DOMAIN S.proj |->
                              CASE p = XY -> SetShape(S.proj[p], x_size, y_size, z_size)
                                [] p = XZ -> SetShape(S.proj[p], x_size, z_size, y_size)
                                [] p = YZ -> SetShape(S.proj[p], y_size, z_size, x_size)
                                [] OTHER  -> S.proj[p]]]

(***************************************************************************)
(* The data sets of a series. A header is what dataset.get() finds: every  *)
(* element is <<value>> when present and <<>> when missing. 'Date' is no   *)
(* DICOM keyword, so dataset.get('Date') finds nothing in any data set.    *)
(***************************************************************************)
FullHeader ==
    [PixelSpacing |-> <<5, 10>>, SliceThickness |-> <<20>>,
     PatientID |-> <<"P1">>, PatientName |-> <<"Doe^Jane">>, PatientAge |-> <<"042Y">>,
     PatientSex |-> <<"f">>, StudyID |-> <<"S1">>, Date |-> <<>>,
     BodyPartExamined |-> <<"CHEST">>]

BareHeader ==
    [PixelSpacing |-> <<10, 10>>, SliceThickness |-> <<>>,
     PatientID |-> <<>>, PatientName |-> <<>>, PatientAge |-> <<>>,
     PatientSex |-> <<>>, StudyID |-> <<>>, Date |-> <<>>,
     BodyPartExamined |-> <<>>]

NoSpacingHeader == [FullHeader EXCEPT !.PixelSpacing = <<>>]

Headers == {FullHeader, BareHeader, NoSpacingHeader}

\* the data sets extract_ct_from_dcm returns: the slices in ascending
\* location, every one with the header of its series
MkSeries(shapes, header) ==
    [i \in 1 .. Len(shapes) |-> [pixel_array |-> PixelArray(i, shapes[i]), header |-> header]]

\* get_ct_thickness
GetCtThickness(dcm_dataset) == dcm_dataset.header.SliceThickness

\* get_ct_pixel_spacing: unpacking the None of a missing element raises
GetCtPixelSpacing(dcm_dataset) ==
    IF dcm_dataset.header.PixelSpacing = <<>>
    THEN [ok |-> FALSE, err |-> "TypeError", val |-> <<>>]
    ELSE [ok |-> TRUE, err |-> "", val |-> dcm_dataset.header.PixelSpacing]

\* the loop 'if not value: ... = "unknown"' on one value: None and the
\* empty string are the false ones
OrUnknown(value) == IF value = <<>> \/ value = <<"">> THEN "unknown" ELSE value[1]

\* get_patient_data
GetPatientData(dcm_dataset) ==
    LET h == dcm_dataset.header
    IN  << <<"Patient ID", OrUnknown(h.PatientID)>>,
           <<"Name", OrUnknown(<<PyUpper(PyStr(h.PatientName))>>)>>,
           <<"Age", OrUnknown(<<PyStr(h.PatientAge)>>)>>,
           <<"Sex", OrUnknown(<<PyCapitalize(PyStr(h.PatientSex))>>)>> >>

\* get_examination_data
GetExaminationData(dcm_dataset) ==
    LET h == dcm_dataset.header
    IN  << <<"Study ID", OrUnknown(<<PyStr(h.StudyID)>>)>>,
           <<"Date", OrUnknown(<<PyStr(h.Date)>>)>>,
           <<"Body Part Examined", OrUnknown(<<PyCapitalize(PyStr(h.BodyPartExamined))>>)>> >>

(***************************************************************************)
(* views/projection_view.py: the state of a ProjectionWidget the handlers  *)
(* read. The ROI's position and size are in twentieths of a pixel.         *)
(***************************************************************************)
\* QSlider(): the range of a new slider is 0..99
SliderDefaultMax == 99

\* __create_histogram: histogram.setLevels(min=0, max=4000). Levels are in
\* halves of a unit.
DefaultLevels == <<0, 8000>>

\* ProjectionWidget.__init__: pg.ROI(pos=[0, 0]) has size (1, 1)
NewProjectionWidget ==
    [connected |-> FALSE,
     histogram_is_visible |-> FALSE,
     levels |-> DefaultLevels,
     roi_is_visible |-> FALSE,
     slider_value |-> 0,
     slider_max |-> SliderDefaultMax,
     roi |-> [pos |-> <<0, 0>>, size |-> <<20, 20>>]]

\* the session: Model, the three widgets and the main window
NewSession ==
    [matrix_3d |-> NoneArr,
     patient_metadata |-> <<>>,
     examination_metadata |-> <<>>,
     proj |-> [p \in Plain |-> NewProjectionModel(p)],
     widget |-> [p \in Plain |-> NewProjectionWidget],
     main_window |-> [working_area |-> FALSE, toolbar |-> FALSE]]

(***************************************************************************)
(* numpy statistics and pyqtgraph's ROI.getArrayRegion                     *)
(***************************************************************************)
RECURSIVE SumOver(_, _)
\* the sum of a's samples at the indices in D
SumOver(a, D) ==
    IF D = {} THEN 0
    ELSE LET d == CHOOSE d \in D : TRUE
         IN  a.at[d] + SumOver(a, D \ {d})

RECURSIVE SumSqOver(_, _)
\* the sum of the squares of a's samples at the indices in D
SumSqOver(a, D) ==
    IF D = {} THEN 0
    ELSE LET d == CHOOSE d \in D : TRUE
         IN  a.at[d] * a.at[d] + SumSqOver(a, D \ {d})

RECURSIVE ISqrtIn(_, _, _)
\* the largest t in lo..hi with t * t <= n (lo * lo <= n)
ISqrtIn(n, lo, hi) ==
    IF lo = hi THEN lo
    ELSE LET mid == (lo + hi + 1) \div 2
         IN  IF mid * mid <= n THEN ISqrtIn(n, mid, hi) ELSE ISqrtIn(n, lo, mid - 1)

ISqrt(n) == ISqrtIn(n, 0, IF n < 46340 THEN n ELSE 46340)

\* the number of samples of a 2-d array
Size2(a) == a.shape[1] * a.shape[2]

\* f"{np.mean(a):.2f}": the mean of no samples is nan
MeanStr(a) ==
    LET n == Size2(a)
        s == SumOver(a, DOMAIN a.at)
    IN  IF n = 0 THEN "nan" ELSE Fmt2((200 * s + n) \div (2 * n))

\* f"{np.std(a):.2f}": the population standard deviation sqrt(V) / n, with
\* V = n * sum(v^2) - sum(v)^2, rounded to hundredths
StdStr(a) ==
    LET n == Size2(a)
        s == SumOver(a, DOMAIN a.at)
        q == SumSqOver(a, DOMAIN a.at)
        t == ISqrt(40000 * (n * q - s * s))
    IN  IF n = 0 THEN "nan"
        ELSE Fmt2(IF t < n THEN 0 ELSE ((t - n) \div (2 * n)) + 1)

\* roi.getArrayRegion(data, img): the samples under the ROI, one per pixel
\* the ROI covers or touches (affineSlice takes the ceiling of the size),
\* taken on the pixel grid; a sample outside the image is 0
GetArrayRegion(roi, data) ==
    LET x0 == roi.pos[1] \div 20
        y0 == roi.pos[2] \div 20
        w  == (roi.size[1] + 19) \div 20
        h  == (roi.size[2] + 19) \div 20
    IN  Arr2(w, h, [p \in Idx2(w, h) |->
                      IF <<x0 + p[1], y0 + p[2]>> \in DOMAIN data.at
                      THEN data.at[<<x0 + p[1], y0 + p[2]>>] ELSE 0])

(***************************************************************************)
(* controllers/main_controller.py                                          *)
(* A handler maps the session S to [st, err]: the session it leaves and    *)
(* the exception it raised ("" when it returned).                          *)
(***************************************************************************)
\* XZ and YZ taken along each other's axis
OrthogonalSlicingSwapped(matrix_3d, n, plain) ==
    LET X == matrix_3d.shape[1]
        Y == matrix_3d.shape[2]
        Z == matrix_3d.shape[3]
        InRange(dim) == -dim <= n /\ n < dim
    IN  CASE plain \in Plain /\ IsNoneArr(matrix_3d) -> Raise("TypeError")
          [] plain = XY /\ ~IsNoneArr(matrix_3d) ->
                IF InRange(Z)
                THEN Ok(Arr2(X, Y, [p \in Idx2(X, Y) |->
                                       matrix_3d.at[<<p[1], p[2], PyIndex(n, Z)>>]]))
                ELSE Raise("IndexError")
          [] plain = XZ /\ ~IsNoneArr(matrix_3d) ->
                IF InRange(X)
                THEN Ok(Arr2(Y, Z, [p \in Idx2(Y, Z) |->
                                       matrix_3d.at[<<PyIndex(n, X), p[1], p[2]>>]]))
                ELSE Raise("IndexError")
          [] plain = YZ /\ ~IsNoneArr(matrix_3d) ->
                IF InRange(Y)
                THEN Ok(Arr2(X, Z, [p \in Idx2(X, Z) |->
                                       matrix_3d.at[<<p[1], PyIndex(n, Y), p[2]>>]]))
                ELSE Raise("IndexError")
          [] OTHER -> Raise("AssertionError")

\* __orthogonal_slicing: matrix[:, :, n], matrix[:, n, :], matrix[n, :, :]
OrthogonalSlicing(matrix_3d, n, plain) ==
    LET X == matrix_3d.shape[1]
        Y == matrix_3d.shape[2]
        Z == matrix_3d.shape[3]
        InRange(dim) == -dim <= n /\ n < dim
    IN  CASE plain \in Plain /\ IsNoneArr(matrix_3d) -> Raise("TypeError")
          [] plain = XY /\ ~IsNoneArr(matrix_3d) ->
                IF InRange(Z)
                THEN Ok(Arr2(X, Y, [p \in Idx2(X, Y) |->
                                       matrix_3d.at[<<p[1], p[2], PyIndex(n, Z)>>]]))
                ELSE Raise("IndexError")
          [] plain = XZ /\ ~IsNoneArr(matrix_3d) ->
                IF InRange(Y)
                THEN Ok(Arr2(X, Z, [p \in Idx2(X, Z) |->
                                       matrix_3d.at[<<p[1], PyIndex(n, Y), p[2]>>]]))
                ELSE Raise("IndexError")
          [] plain = YZ /\ ~IsNoneArr(matrix_3d) ->
                IF InRange(X)
                THEN Ok(Arr2(Y, Z, [p \in Idx2(Y, Z) |->
                                       matrix_3d.at[<<PyIndex(n, X), p[1], p[2]>>]]))
                ELSE Raise("IndexError")
          [] OTHER -> Raise("AssertionError")

\* the fraction num / den rounded down
PyIntFloor(num, den) == num \div den

\* int(x) of Python for the fraction x = num / den, den > 0: what is behind
\* the point is cut off
PyInt(num, den) == IF num >= 0 THEN num \div den ELSE -((-num) \div den)

\* histogram_changed_handle, line 108: int(max_val - min_val), for levels
\* in halves
WindowWidth(levels) == PyInt(levels[2] - levels[1], 2)

\* histogram_changed_handle, line 109: int(min_val + width/2)
WindowCenter(levels) == PyInt(levels[1] + WindowWidth(levels), 2)

\* histogram_changed_handle
HistogramChangedHandle(S, plain) ==
    IF ~S.widget[plain].histogram_is_visible THEN S
    ELSE [S EXCEPT !.proj[plain] =
            UpdateImgMetadata(S.proj[plain],
                << <<"Window Width", ToString(WindowWidth(S.widget[plain].levels))>>,
                   <<"Window Level", ToString(WindowCenter(S.widget[plain].levels))>> >>)]

\* HistogramLUTItem.sigLevelsChanged: the callback connect_signals
\* connected, if any
EmitLevelsChanged(S, plain) ==
    IF S.widget[plain].connected THEN HistogramChangedHandle(S, plain) ELSE S

\* ProjectionWidget.update_image: the histogram follows the levels of the
\* image it is given and is then put back at the levels it had, so the last
\* sigLevelsChanged it emits is for the levels it had before
UpdateImage(S, plain) == EmitLevelsChanged(S, plain)

\* the slice's number is written to the metadata of every projection
WriteSliceNumberAll(S, n, plain) ==
    [S EXCEPT !.proj = [p \in DOMAIN S.proj |->
        UpdateImgMetadata(S.proj[p],
            << <<"Slice", ToString(n + 1) \o "/" \o ToString(S.proj[plain].slices_count)>> >>)]]

\* change_slice_handle, lines 88-91: the slice's number is written to the
\* image's metadata
WriteSliceNumber(S, n, plain) ==
    [S EXCEPT !.proj[plain] =
        UpdateImgMetadata(S.proj[plain],
            << <<"Slice", ToString(n + 1) \o "/" \o ToString(S.proj[plain].slices_count)>> >>)]

\* change_slice_handle, lines 85-91, for the result r of the slicing: the
\* slice is kept as the current one and shown, and its number is written
ShowSlice(S, n, plain, r) ==
    IF ~r.ok THEN [st |-> S, err |-> r.err]
    ELSE [st |-> WriteSliceNumber(
                    UpdateImage([S EXCEPT !.proj[plain] =
                                    SetCurrentSlice(S.proj[plain], r.val, n)], plain),
                    n, plain),
          err |-> ""]

\* change_slice_handle: the widget and the projection model are looked up
\* in their dicts before the slice is taken
ChangeSliceHandle(S, n, plain) ==
    IF plain \notin DOMAIN S.widget \/ plain \notin DOMAIN S.proj
    THEN [st |-> S, err |-> "KeyError"]
    ELSE ShowSlice(S, n, plain, OrthogonalSlicing(S.matrix_3d, n, plain))

\* the product pixel_width * col_spacing * pixel_height * row_spacing
\* raises when a spacing is None
RoiArea(pm, footprint) ==
    IF pm.col_spacing = <<>> \/ pm.row_spacing = <<>>
    THEN [ok |-> FALSE, err |-> "TypeError", val |-> 0]
    ELSE [ok |-> TRUE, err |-> "",
          val |-> footprint[1] * pm.col_spacing[1] * footprint[2] * pm.row_spacing[1]]

\* the area is written but the footprint is not remembered
AreaUpdateNoCache(pm, footprint) ==
    LET a == RoiArea(pm, footprint)
    IN  IF footprint = pm.prev_roi_pix_size THEN [pm |-> pm, err |-> ""]
        ELSE IF ~a.ok THEN [pm |-> pm, err |-> a.err]
        ELSE [pm |-> UpdateRoiMetadata(pm, << <<"Area", Fmt2(a.val) \o " mm2">> >>),
              err |-> ""]

\* roi_changed_handle, lines 139-143: when the footprint is not the one
\* remembered, it is remembered, and then the area is computed and written
AreaUpdate(pm, footprint) ==
    LET pm1 == [pm EXCEPT !.prev_roi_pix_size = footprint]
        a   == RoiArea(pm, footprint)
    IN  IF footprint = pm.prev_roi_pix_size THEN [pm |-> pm, err |-> ""]
        ELSE IF ~a.ok THEN [pm |-> pm1, err |-> a.err]
        ELSE [pm |-> UpdateRoiMetadata(pm1, << <<"Area", Fmt2(a.val) \o " mm2">> >>),
              err |-> ""]

\* roi_changed_handle, lines 145-152: the mean and the standard deviation
\* of the region are written, after the area update au
StatisticsUpdate(S, plain, roi_matrix, au) ==
    IF au.err # "" THEN [st |-> [S EXCEPT !.proj[plain] = au.pm], err |-> au.err]
    ELSE [st |-> [S EXCEPT !.proj[plain] =
                    UpdateRoiMetadata(au.pm,
                        << <<"Mean", MeanStr(roi_matrix)>>,
                           <<"Std Dev", StdStr(roi_matrix)>> >>)],
          err |-> ""]

\* roi_changed_handle, lines 136-152, for the region under the ROI
RegionUpdate(S, plain, roi_matrix) ==
    StatisticsUpdate(S, plain, roi_matrix, AreaUpdate(S.proj[plain], roi_matrix.shape))

\* roi_changed_handle
RoiChangedHandle(S, plain) ==
    IF ~S.widget[plain].roi_is_visible THEN [st |-> S, err |-> ""]
    ELSE IF IsNoneArr(S.proj[plain].current_slice_image)
    THEN [st |-> S, err |-> "AttributeError"]
    ELSE RegionUpdate(S, plain,
             GetArrayRegion(S.widget[plain].roi, S.proj[plain].current_slice_image))

\* ROI.sigRegionChanged: the callback connect_signals connected, if any.
\* An exception of a slot is printed by Qt and does not reach the emitter.
EmitRegionChanged(S, plain) ==
    IF S.widget[plain].connected THEN RoiChangedHandle(S, plain).st ELSE S

\* QSlider.valueChanged(v): the slots in the order of their connection,
\* first __create_slider's (it emits the ROI's signal), then
\* connect_signals' (change_slice_handle)
EmitValueChanged(S, plain, v) ==
    IF S.widget[plain].connected
    THEN ChangeSliceHandle(EmitRegionChanged(S, plain), v, plain).st
    ELSE S

\* ProjectionWidget.set_roi_visibility
SetRoiVisibility(S, plain, visible) ==
    IF S.widget[plain].roi_is_visible = visible THEN S
    ELSE IF visible
    THEN EmitRegionChanged([S EXCEPT !.widget[plain].roi_is_visible = visible], plain)
    ELSE [S EXCEPT !.widget[plain].roi_is_visible = visible]

\* ProjectionWidget.set_histogram_visibility
SetHistogramVisibility(S, plain, visible) ==
    [S EXCEPT !.widget[plain].histogram_is_visible = visible]

\* histogram_mode_handle
HistogramModeHandle(S, visible) ==
    SetHistogramVisibility(SetHistogramVisibility(SetHistogramVisibility(S, XY, visible),
                                                  XZ, visible), YZ, visible)

\* roi_mode_handle: the widgets in the order of projection_widgets
RoiModeHandle(S, visible) ==
    SetRoiVisibility(SetRoiVisibility(SetRoiVisibility(S, XY, visible), XZ, visible), YZ, visible)

\* __model_preset, lines 172-221: the projections' spacings, planes,
\* orientations and metadata, and the patient's and the examination's data
ConfigureProjections(S, metadata_slice, row_spacing, col_spacing) ==
    LET slice_thickness == GetCtThickness(metadata_slice)
        Orient(up, bottom, left, right) ==
            << <<"up", up>>, <<"bottom", bottom>>, <<"left", left>>, <<"right", right>> >>
        Preset(pm, cs, rs, th, plane, orientation) ==
            [SetSpacings(pm, cs, rs, th) EXCEPT
               !.anatomical_plane = plane,
               !.projection_orientation = orientation,
               !.image_metadata =
                   << <<"Plane", plane>>,
                      <<"Slice", "unknown">>,
                      <<"Window Width", "4000">>,
                      <<"Window Level", "2000">>,
                      <<"Size", ToString(pm.slices_width) \o "x" \o ToString(pm.slices_height)>>,
                      <<"Slice Thickness",
                        (IF th = <<>> THEN "None" ELSE FmtTenths(th[1])) \o "mm">> >>,
               !.roi_metadata = << <<"Area", "">>, <<"Mean", "">>, <<"Std Dev", "">> >>]
    IN  [S EXCEPT
           !.proj = [p \in DOMAIN S.proj |->
              CASE p = XY -> Preset(S.proj[p], <<col_spacing>>, <<row_spacing>>, slice_thickness,
                                    "Axial", Orient("P", "A", "R", "L"))
                [] p = XZ -> Preset(S.proj[p], <<col_spacing>>, slice_thickness, <<row_spacing>>,
                                    "Coronal", Orient("S", "I", "R", "L"))
                [] p = YZ -> Preset(S.proj[p], <<row_spacing>>, slice_thickness, <<col_spacing>>,
                                    "Sagittal", Orient("S", "I", "A", "P"))
                [] OTHER  -> S.proj[p]],
           !.patient_metadata = GetPatientData(metadata_slice),
           !.examination_metadata = GetExaminationData(metadata_slice)]

\* __model_preset, lines 166-221, for the pixel spacing sp read from the
\* middle data set
PresetFrom(S1, metadata_slice, sp) ==
    IF ~sp.ok THEN [st |-> S1, err |-> sp.err]
    ELSE [st |-> ConfigureProjections(S1, metadata_slice, sp.val[1], sp.val[2]), err |-> ""]

\* __model_preset, lines 166-169: the middle data set of the series
MetadataSlice(ct_slices, matrix) == ct_slices[(matrix.shape[3] \div 2) + 1]

\* the volume is dropped when the build fails
StoreModelDropping(S, ct_slices, b) ==
    IF ~b.ok THEN [st |-> [S EXCEPT !.matrix_3d = NoneArr], err |-> b.err]
    ELSE PresetFrom(SetModelMatrix(S, b.val), MetadataSlice(ct_slices, b.val),
                    GetCtPixelSpacing(MetadataSlice(ct_slices, b.val)))

\* __model_preset, lines 163-221, for the result b of the build: the
\* volume is stored, then the spacing is read
StoreModel(S, ct_slices, b) ==
    IF ~b.ok THEN [st |-> S, err |-> b.err]
    ELSE PresetFrom(SetModelMatrix(S, b.val), MetadataSlice(ct_slices, b.val),
                    GetCtPixelSpacing(MetadataSlice(ct_slices, b.val)))

\* __model_preset: the volume is built with rot_k=1
ModelPreset(S, ct_slices) ==
    StoreModel(S, ct_slices, GetCtModelAsMatrix(ct_slices, 1))

\* QSlider.setMaximum keeps the value in the new range, and emits
\* valueChanged when the value is another one
SetMaximum(S, plain, max_val) ==
    LET v0 == S.widget[plain].slider_value
        v1 == IF v0 > max_val THEN max_val ELSE v0
    IN  IF v1 # v0
        THEN EmitValueChanged([S EXCEPT !.widget[plain].slider_max = max_val,
                                        !.widget[plain].slider_value = v1], plain, v1)
        ELSE [S EXCEPT !.widget[plain].slider_max = max_val]

\* QSlider.setSliderPosition moves the slider inside its range, and emits
\* valueChanged when the value is another one
SetSliderPosition(S, plain, position) ==
    LET max_val == S.widget[plain].slider_max
        v2 == IF position > max_val THEN max_val ELSE position
    IN  IF v2 # S.widget[plain].slider_value
        THEN EmitValueChanged([S EXCEPT !.widget[plain].slider_value = v2], plain, v2)
        ELSE S

\* ProjectionWidget.set_slider
SetSlider(S, plain, position, max_val) ==
    SetSliderPosition(SetMaximum(S, plain, max_val), plain, position)

\* ROI.setSize and ROI.setPos: sigRegionChanged is emitted when the state
\* is another one
SetRoiState(S, plain, roi) ==
    IF S.widget[plain].roi = roi THEN S
    ELSE EmitRegionChanged([S EXCEPT !.widget[plain].roi = roi], plain)

\* ROI.setSize
SetSize(S, plain, size) ==
    SetRoiState(S, plain, [S.widget[plain].roi EXCEPT !.size = size])

\* ROI.setPos
SetPos(S, plain, pos) ==
    SetRoiState(S, plain, [S.widget[plain].roi EXCEPT !.pos = pos])

\* __set_projection_view, lines 241-254: image_item.width() and height()
\* are None while the widget shows no image, and min(None, None) raises;
\* roi_size = 0.3 * min(x, y), pos = ((x - roi_size) / 2, (y - roi_size) / 2)
PlaceRoi(S, plain) ==
    LET img == S.proj[plain].current_slice_image
        x == img.shape[1]
        y == img.shape[2]
        m == IF img.shape[1] < img.shape[2] THEN img.shape[1] ELSE img.shape[2]
    IN  IF IsNoneArr(img) THEN [st |-> S, err |-> "TypeError"]
        ELSE [st |-> SetPos(SetSize(S, plain, <<6 * m, 6 * m>>), plain,
                            <<10 * x - 3 * m, 10 * y - 3 * m>>),
              err |-> ""]

\* __set_projection_view
SetProjectionView(S, plain) ==
    PlaceRoi(SetSlider([S EXCEPT !.widget[plain].connected = TRUE], plain,
                       S.proj[plain].slices_count \div 2, S.proj[plain].slices_count - 1),
             plain)

RECURSIVE SetProjectionViews(_, _)
\* load_model_handle, lines 69-71: the loop over the projections ends at
\* the first call that raises
SetProjectionViewsFrom(r, plains) ==
    IF r.err # "" THEN r ELSE SetProjectionViews(r.st, plains)

SetProjectionViews(S, plains) ==
    IF plains = <<>> THEN [st |-> S, err |-> ""]
    ELSE SetProjectionViewsFrom(SetProjectionView(S, Head(plains)), Tail(plains))

\* load_model_handle, lines 73-76: MainWindow.set_working_area puts the
\* widgets in the tabs of the window and show_toolbar adds the toolbar
ShowSession(r) ==
    IF r.err # "" THEN [st |-> r.st, err |-> r.err, at |-> "set_projection_view"]
    ELSE [st |-> [r.st EXCEPT !.main_window = [working_area |-> TRUE, toolbar |-> TRUE]],
          err |-> "", at |-> ""]

\* load_model_handle, lines 69-76, after __model_preset ended as r0
LoadFrom(r0) ==
    IF r0.err # "" THEN [st |-> r0.st, err |-> r0.err, at |-> "model_preset"]
    ELSE ShowSession(SetProjectionViews(r0.st, <<XY, XZ, YZ>>))

\* load_model_handle, for the data sets extract_ct_from_dcm returned
LoadModelHandle(S, ct_slices) == LoadFrom(ModelPreset(S, ct_slices))

(***************************************************************************)
(* The state                                                               *)
(***************************************************************************)
VARIABLES
    matrix_3d,              \* Model.__matrix_3d
    patient_metadata,       \* Model.__patient_metadata
    examination_metadata,   \* Model.__examination_metadata
    proj,                   \* Model.__projections_models
    widget,                 \* MainController.projection_widgets
    main_window,            \* what MainWindow shows
    tab,                    \* the tab the user works in
    build,                  \* a call of get_ct_model_as_matrix on its own
    call                    \* the last call of a method on its own: how it ended

vars == <<matrix_3d, patient_metadata, examination_metadata, proj, widget, main_window,
          tab, build, call>>

Session ==
    [matrix_3d |-> matrix_3d,
     patient_metadata |-> patient_metadata,
     examination_metadata |-> examination_metadata,
     proj |-> proj,
     widget |-> widget,
     main_window |-> main_window]

Becomes(S) ==
    /\ matrix_3d' = S.matrix_3d
    /\ patient_metadata' = S.patient_metadata
    /\ examination_metadata' = S.examination_metadata
    /\ proj' = S.proj
    /\ widget' = S.widget
    /\ main_window' = S.main_window

\* no slice was asked for
NoSlicing == [done |-> FALSE, n |-> 0, plain |-> "", res |-> Raise("")]

NoBuild ==
    [dcm_files |-> <<>>, rot_k |-> 0, called |-> FALSE, res |-> Raise(""), slicing |-> NoSlicing]

\* no method was called on its own
NoCall == [op |-> "", err |-> "", res |-> <<>>]

\* MvcApp.__init__
InitSession ==
    /\ matrix_3d = NewSession.matrix_3d
    /\ patient_metadata = NewSession.patient_metadata
    /\ examination_metadata = NewSession.examination_metadata
    /\ proj = NewSession.proj
    /\ widget = NewSession.widget
    /\ main_window = NewSession.main_window

\* The window shows one widget at a time, in the tabs of a QTabWidget. The
\* model follows the sessions in which the user works in one tab, any of
\* the three, and comes back to it after every load.
Init ==
    /\ InitSession
    /\ tab \in Plain
    /\ build = NoBuild
    /\ call = NoCall

(***************************************************************************)
(* The events                                                              *)
(***************************************************************************)
\* the series the user opens: every slice of a series has the same shape,
\* of MaxDim rows
LoadShapeSeqs ==
    {sh \in ShapeSeqs : /\ Len(sh) <= MaxLoadSlices
                         /\ \A i \in 1 .. Len(sh) : sh[i] = sh[1] /\ sh[i][1] = MaxDim}

\* the states the ROI is given: at the pixels 0..MaxRoiX of the first
\* axis, one pixel high and 0..MaxRoiW pixels wide
UserRois ==
    {[pos |-> <<20 * x, 0>>, size |-> <<20 * w, 20>>] :
        x \in 0 .. MaxRoiX, w \in 0 .. MaxRoiW}

\* File > Open File: load_model_handle
Load(shapes, header) ==
    /\ Becomes(LoadModelHandle(Session, MkSeries(shapes, header)).st)
    /\ UNCHANGED <<tab, build, call>>

\* the user moves the slider of the widget the window shows
SliderMoved(plain, v) ==
    /\ main_window.working_area
    /\ tab = plain
    /\ v <= widget[plain].slider_max
    /\ v # widget[plain].slider_value
    /\ Becomes(EmitValueChanged([Session EXCEPT !.widget[plain].slider_value = v], plain, v))
    /\ UNCHANGED <<tab, build, call>>

\* the ROI of the widget the window shows is given another state (dragged,
\* scaled or set), and emits sigRegionChanged
RoiMoved(plain, roi) ==
    /\ main_window.working_area
    /\ tab = plain
    /\ widget[plain].roi_is_visible
    /\ roi # widget[plain].roi
    /\ Becomes(EmitRegionChanged([Session EXCEPT !.widget[plain].roi = roi], plain))
    /\ UNCHANGED <<tab, build, call>>

\* the toolbar's checkable ROI button: roi_mode_handle
RoiMode ==
    /\ main_window.toolbar
    /\ Becomes(RoiModeHandle(Session, ~widget[XY].roi_is_visible))
    /\ UNCHANGED <<tab, build, call>>

\* the toolbar's checkable histogram button: histogram_mode_handle
HistogramMode ==
    /\ main_window.toolbar
    /\ Becomes(HistogramModeHandle(Session, ~widget[XY].histogram_is_visible))
    /\ UNCHANGED <<tab, build, call>>

\* the levels the user gives the histogram, in halves
UserLevels == {DefaultLevels, <<2000, 6000>>, <<-6, 0>>, <<-7, 0>>}

\* the user drags the levels of the histogram of the widget the window
\* shows, and the histogram emits sigLevelsChanged
HistogramChanged(plain, levels) ==
    /\ main_window.working_area
    /\ tab = plain
    /\ widget[plain].histogram_is_visible
    /\ levels # widget[plain].levels
    /\ Becomes(EmitLevelsChanged([Session EXCEPT !.widget[plain].levels = levels], plain))
    /\ UNCHANGED <<tab, build, call>>

\* the sessions in which the histogram stays hidden: series with any of the
\* headers are opened, also series the load of which fails
Next ==
    \/ \E shapes \in LoadShapeSeqs, header \in Headers : Load(shapes, header)
    \/ \E plain \in Plain, v \in 0 .. MaxDim : SliderMoved(plain, v)
    \/ \E plain \in Plain, roi \in UserRois : RoiMoved(plain, roi)
    \/ RoiMode

Spec == Init /\ [][Next]_vars

(***************************************************************************)
(* The sessions in which the histogram is used too: the user opens series  *)
(* of square slices with every element in their headers, and moves the     *)
(* slider, the ROI and the levels of the histogram                         *)
(***************************************************************************)
WindowShapeSeqs ==
    {sh \in LoadShapeSeqs : Len(sh) >= 1 /\ sh[1] = <<MaxDim, MaxDim>>}

NextWindow ==
    \/ \E shapes \in WindowShapeSeqs : Load(shapes, FullHeader)
    \/ \E plain \in Plain, v \in 0 .. MaxDim : SliderMoved(plain, v)
    \/ \E plain \in Plain, roi \in UserRois : RoiMoved(plain, roi)
    \/ RoiMode
    \/ HistogramMode
    \/ \E plain \in Plain, levels \in UserLevels : HistogramChanged(plain, levels)

SpecWindow == Init /\ [][NextWindow]_vars

(***************************************************************************)
(* The builder and the slicing on their own: get_ct_model_as_matrix is     *)
(* called once, on any series of slices of any shapes and with any rot_k,  *)
(* and __orthogonal_slicing is then called once on the volume it returned, *)
(* for any plane and any index from 0 to MaxDim                            *)
(***************************************************************************)
InitBuild ==
    /\ InitSession
    /\ tab = XY
    /\ \E shapes \in ShapeSeqs, rot_k \in -MaxRot .. MaxRot :
          build = [NoBuild EXCEPT !.dcm_files = MkSeries(shapes, FullHeader), !.rot_k = rot_k]
    /\ call = NoCall

CallBuild ==
    /\ ~build.called
    /\ build' = [build EXCEPT !.called = TRUE,
                              !.res = GetCtModelAsMatrix(build.dcm_files, build.rot_k)]
    /\ UNCHANGED <<matrix_3d, patient_metadata, examination_metadata, proj, widget,
                   main_window, tab, call>>

CallSlicing(n, plain) ==
    /\ build.called
    /\ build.res.ok
    /\ ~build.slicing.done
    /\ build' = [build EXCEPT !.slicing = [done |-> TRUE, n |-> n, plain |-> plain,
                                           res |-> OrthogonalSlicing(build.res.val, n, plain)]]
    /\ UNCHANGED <<matrix_3d, patient_metadata, examination_metadata, proj, widget,
                   main_window, tab, call>>

NextBuild ==
    \/ CallBuild
    \/ \E n \in 0 .. MaxDim, plain \in Plain : CallSlicing(n, plain)

SpecBuild == InitBuild /\ [][NextBuild]_vars

(***************************************************************************)
(* Properties of the builder and of the slicing, under SpecBuild           *)
(***************************************************************************)
\* the number of slices given to the builder
NumSlices == Len(build.dcm_files)

\* the i-th slice given to the builder, i from 0
InputSlice(i) == build.dcm_files[i + 1].pixel_array

\* the slices given to the builder all have one shape
SameShapes == \A i \in 0 .. NumSlices - 1 : InputSlice(i).shape = InputSlice(0).shape

\* the samples of the i-th slice given to the builder
SliceSamples(i) == {InputSlice(i).at[p] : p \in DOMAIN InputSlice(i).at}

\* the samples of the built volume at Z index k
PlaneSamples(k) == {build.res.val.at[p] : p \in {q \in DOMAIN build.res.val.at : q[3] = k}}

\* C1: the slice at input position i ends up at Z index N-1-i of the built
\* volume. The samples of a series are all different, so the slice at a Z
\* index is known by its samples, whatever the rotation.
C1_ZOrderReversed ==
    (build.called /\ build.res.ok /\ SameShapes) =>
        \A i \in 0 .. NumSlices - 1 : PlaneSamples(NumSlices - 1 - i) = SliceSamples(i)

\* C3: for a volume of shape (Nx, Ny, Nz), the slicing leaves the volume as
\* it is and returns, for XY and n in [0, Nz), the (Nx, Ny) cross-section
\* with Z = n; for XZ and n in [0, Ny), the (Nx, Nz) cross-section with
\* Y = n; for YZ and n in [0, Nx), the (Ny, Nz) cross-section with X = n.
C3_OrthogonalSlicing ==
    [][(~build.slicing.done /\ build'.slicing.done) =>
          LET vol == build.res.val
              Nx  == build.res.val.shape[1]
              Ny  == build.res.val.shape[2]
              Nz  == build.res.val.shape[3]
              n   == build'.slicing.n
              got == build'.slicing.res
          IN  /\ build'.res = build.res
              /\ (build'.slicing.plain = XY /\ n < Nz) =>
                    /\ got.ok
                    /\ got.val.shape = <<Nx, Ny>>
                    /\ DOMAIN got.val.at = (0 .. Nx - 1) \X (0 .. Ny - 1)
                    /\ \A x \in 0 .. Nx - 1, y \in 0 .. Ny - 1 :
                          got.val.at[<<x, y>>] = vol.at[<<x, y, n>>]
              /\ (build'.slicing.plain = XZ /\ n < Ny) =>
                    /\ got.ok
                    /\ got.val.shape = <<Nx, Nz>>
                    /\ DOMAIN got.val.at = (0 .. Nx - 1) \X (0 .. Nz - 1)
                    /\ \A x \in 0 .. Nx - 1, z \in 0 .. Nz - 1 :
                          got.val.at[<<x, z>>] = vol.at[<<x, n, z>>]
              /\ (build'.slicing.plain = YZ /\ n < Nx) =>
                    /\ got.ok
                    /\ got.val.shape = <<Ny, Nz>>
                    /\ DOMAIN got.val.at = (0 .. Ny - 1) \X (0 .. Nz - 1)
                    /\ \A y \in 0 .. Ny - 1, z \in 0 .. Nz - 1 :
                          got.val.at[<<y, z>>] = vol.at[<<n, y, z>>]]_vars

\* an XZ slice was taken from a volume with Nx # Ny and two slices
C3_Witness ==
    /\ build.slicing.done
    /\ build.slicing.plain = XZ
    /\ build.slicing.res.ok
    /\ build.res.val.shape[1] # build.res.val.shape[2]
    /\ build.res.val.shape[3] = 2

\* C4: building with rotation r gives what building with r mod 4 gives, for
\* every r; with r mod 4 = 0 every slice is in the volume as it was given.
C4_RotationModFour ==
    build.called =>
        /\ build.res = GetCtModelAsMatrix(build.dcm_files, build.rot_k % 4)
        /\ (build.rot_k % 4 = 0 /\ build.res.ok /\ SameShapes) =>
              \A i \in 0 .. NumSlices - 1 : \E k \in 0 .. NumSlices - 1 :
                  \A p \in DOMAIN InputSlice(i).at :
                      build.res.val.at[<<p[1], p[2], k>>] = InputSlice(i).at[p]

\* a volume was built from two square slices with a negative rotation that
\* is no multiple of 4
C4_Witness ==
    /\ build.called
    /\ build.res.ok
    /\ build.rot_k < 0
    /\ build.rot_k % 4 # 0
    /\ NumSlices = 2
    /\ InputSlice(0).shape = <<MaxDim, MaxDim>>

\* C5: from N >= 1 slices of one shape (W, H) the builder makes a volume of
\* shape (W, H, N), for every rotation.
C5_VolumeShape ==
    (build.called /\ NumSlices >= 1 /\ SameShapes) =>
        /\ build.res.ok
        /\ build.res.val.shape = <<InputSlice(0).shape[1], InputSlice(0).shape[2], NumSlices>>

\* C6: the build of an empty series fails, with an error no other build
\* fails with (Python's IndexError), and makes no volume.
C6_EmptyInput ==
    build.called =>
        /\ NumSlices = 0 =>
              /\ ~build.res.ok
              /\ build.res.err = "IndexError"
              /\ IsNoneArr(build.res.val)
        /\ NumSlices > 0 => build.res.err # "IndexError"

\* the builder was called on an empty series
C6_Witness ==
    /\ build.called
    /\ NumSlices = 0

\* C7: the build fails with the shape error (numpy's ValueError) whenever
\* two of the slices differ in shape.
C7_InconsistentShapes ==
    (build.called /\ ~SameShapes) =>
        /\ ~build.res.ok
        /\ build.res.err = "ValueError"

(***************************************************************************)
(* Properties of the session, under Spec                                   *)
(***************************************************************************)
\* the footprint (width, height) of the sub-array under an ROI
Footprint(roi) == <<(roi.size[1] + 19) \div 20, (roi.size[2] + 19) \div 20>>

\* C2: in an ROI update with the ROI visible, when the footprint of the
\* sub-array is the one recorded for the projection, 'Area' and the
\* recorded footprint stay as they are; when it is another one, 'Area'
\* becomes width x col_spacing x height x row_spacing and the footprint is
\* recorded.
C2_AreaMemoization ==
    [][\A plain \in Plain, roi \in UserRois :
          RoiMoved(plain, roi) =>
              IF Footprint(roi) = proj[plain].prev_roi_pix_size
              THEN /\ Get(proj'[plain].roi_metadata, "Area") = Get(proj[plain].roi_metadata, "Area")
                   /\ proj'[plain].prev_roi_pix_size = proj[plain].prev_roi_pix_size
              ELSE /\ proj'[plain].prev_roi_pix_size = Footprint(roi)
                   /\ proj[plain].col_spacing # <<>>
                   /\ proj[plain].row_spacing # <<>>
                   /\ Get(proj'[plain].roi_metadata, "Area") =
                         Fmt2(Footprint(roi)[1] * proj[plain].col_spacing[1]
                              * Footprint(roi)[2] * proj[plain].row_spacing[1]) \o " mm2"]_vars

\* C8: an ROI update whose sub-array has no width or no height fails, and
\* leaves the projection's ROI metadata and recorded footprint as they were.
C8_EmptyRegion ==
    [][\A plain \in Plain, roi \in UserRois :
          (RoiMoved(plain, roi) /\ 0 \in {Footprint(roi)[1], Footprint(roi)[2]}) =>
              /\ RoiChangedHandle([Session EXCEPT !.widget[plain].roi = roi], plain).err # ""
              /\ proj'[plain].roi_metadata = proj[plain].roi_metadata
              /\ proj'[plain].prev_roi_pix_size = proj[plain].prev_roi_pix_size]_vars

\* what a call of load_model_handle that ended as r left of the session is
\* the session it was called in
SessionKept(r) ==
    /\ r.st.matrix_3d = matrix_3d
    /\ r.st.proj = proj
    /\ r.st.patient_metadata = patient_metadata
    /\ r.st.examination_metadata = examination_metadata
    /\ r.st.widget = widget
    /\ r.st.main_window = main_window

\* C9: in every session, a load whose build of the volume raises is aborted
\* (load_model_handle raises the build's error) and leaves the session as
\* it was: the volume, and every projection's shape, spacings, orientation,
\* current slice and metadata.
C9_BuildErrorKeepsSession ==
    \A shapes \in LoadShapeSeqs, header \in Headers :
        ~GetCtModelAsMatrix(MkSeries(shapes, header), 1).ok =>
            /\ LoadModelHandle(Session, MkSeries(shapes, header)).err
                  = GetCtModelAsMatrix(MkSeries(shapes, header), 1).err
            /\ SessionKept(LoadModelHandle(Session, MkSeries(shapes, header)))

\* a session is loaded and a slice was chosen in it, and the load of a
\* series of slices that are not square raised the build's ValueError here
C9_Witness ==
    /\ main_window.working_area
    /\ ~IsNoneArr(matrix_3d)
    /\ Get(proj[tab].image_metadata, "Slice") # "unknown"
    /\ \E shapes \in LoadShapeSeqs :
          /\ LoadModelHandle(Session, MkSeries(shapes, FullHeader)).err = "ValueError"
          /\ LoadModelHandle(Session, MkSeries(shapes, FullHeader)).at = "model_preset"
          /\ LoadModelHandle(Session, MkSeries(shapes, FullHeader)).st = Session

\* what a call of load_model_handle that ended as r left of the model is
\* what the model was: the volume, every projection's shape, spacings,
\* orientation and metadata, and the patient's and the examination's data
ModelKept(r) ==
    /\ r.st.matrix_3d = matrix_3d
    /\ r.st.patient_metadata = patient_metadata
    /\ r.st.examination_metadata = examination_metadata
    /\ \A p \in Plain :
          /\ r.st.proj[p].slices_count = proj[p].slices_count
          /\ r.st.proj[p].slices_width = proj[p].slices_width
          /\ r.st.proj[p].slices_height = proj[p].slices_height
          /\ r.st.proj[p].col_spacing = proj[p].col_spacing
          /\ r.st.proj[p].row_spacing = proj[p].row_spacing
          /\ r.st.proj[p].slice_thickness = proj[p].slice_thickness
          /\ r.st.proj[p].projection_orientation = proj[p].projection_orientation
          /\ r.st.proj[p].image_metadata = proj[p].image_metadata
          /\ r.st.proj[p].roi_metadata = proj[p].roi_metadata

\* C10: a load that raises, at whatever step, leaves the model as it was.
C10_FailedLoadNotHalfApplied ==
    \A shapes \in LoadShapeSeqs, header \in Headers :
        LoadModelHandle(Session, MkSeries(shapes, header)).err # "" =>
            ModelKept(LoadModelHandle(Session, MkSeries(shapes, header)))

(***************************************************************************)
(* Properties of the patient's and the examination's data, under Spec      *)
(***************************************************************************)
\* the elements get_patient_data reads, with the keys their values get
PatientFields ==
    {<<"PatientID", "Patient ID">>, <<"PatientName", "Name">>, <<"PatientAge", "Age">>,
     <<"PatientSex", "Sex">>}

\* the elements get_examination_data reads, with the keys their values get
ExaminationFields ==
    {<<"StudyID", "Study ID">>, <<"Date", "Date">>,
     <<"BodyPartExamined", "Body Part Examined">>}

\* C11: for each of the fields patient ID, name, age, sex, study ID, date
\* and body part, when the data set the metadata are read from does not
\* hold the field, the patient's or the examination's map that
\* __model_preset stores holds the string "unknown" under the field's key.
C11_UnknownSubstitution ==
    \A shapes \in LoadShapeSeqs, header \in Headers :
        ModelPreset(Session, MkSeries(shapes, header)).err = "" =>
            /\ \A f \in PatientFields :
                  header[f[1]] = <<>> =>
                      Get(ModelPreset(Session, MkSeries(shapes, header)).st.patient_metadata,
                          f[2]) = "unknown"
            /\ \A f \in ExaminationFields :
                  header[f[1]] = <<>> =>
                      Get(ModelPreset(Session, MkSeries(shapes, header)).st.examination_metadata,
                          f[2]) = "unknown"

(***************************************************************************)
(* The metadata maps on their own: update_img_metadata and                 *)
(* update_roi_metadata are called on the XY projection of a new session,   *)
(* any number of times, with any dict of at most MaxPartial entries        *)
(***************************************************************************)
MaxPartial == 2

MergeKeys == {"Slice", "Area"}

MergeValues == {"1", "2"}

\* the dicts given to the two methods: no key twice
PartialMaps ==
    {m \in UNION {[1 .. n -> MergeKeys \X MergeValues] : n \in 0 .. MaxPartial} :
        \A i, j \in 1 .. Len(m) : m[i][1] = m[j][1] => i = j}

InitMerge ==
    /\ InitSession
    /\ tab = XY
    /\ build = NoBuild
    /\ call = NoCall

\* proj_model.update_img_metadata(metadata): the dict it returns is kept
CallUpdateImgMetadata(metadata) ==
    /\ proj' = [proj EXCEPT ![XY] = UpdateImgMetadata(proj[XY], metadata)]
    /\ call' = [op |-> "update_img_metadata", err |-> "",
                res |-> UpdateImgMetadata(proj[XY], metadata).image_metadata]
    /\ UNCHANGED <<matrix_3d, patient_metadata, examination_metadata, widget, main_window,
                   tab, build>>

\* proj_model.update_roi_metadata(data): the dict it returns is kept
CallUpdateRoiMetadata(data) ==
    /\ proj' = [proj EXCEPT ![XY] = UpdateRoiMetadata(proj[XY], data)]
    /\ call' = [op |-> "update_roi_metadata", err |-> "",
                res |-> UpdateRoiMetadata(proj[XY], data).roi_metadata]
    /\ UNCHANGED <<matrix_3d, patient_metadata, examination_metadata, widget, main_window,
                   tab, build>>

NextMerge ==
    \/ \E metadata \in PartialMaps : CallUpdateImgMetadata(metadata)
    \/ \E data \in PartialMaps : CallUpdateRoiMetadata(data)

SpecMerge == InitMerge /\ [][NextMerge]_vars

(***************************************************************************)
(* Properties of the metadata maps, under SpecMerge                        *)
(***************************************************************************)
\* out is md with partial merged into it: every key of partial has
\* partial's value, the keys of md are where they were, with their values
\* when partial does not hold them, and behind them are keys of partial
\* that md did not hold
Merged(md, partial, out) ==
    /\ \A i \in 1 .. Len(partial) :
          HasKey(out, partial[i][1]) /\ Get(out, partial[i][1]) = partial[i][2]
    /\ Len(out) >= Len(md)
    /\ \A i \in 1 .. Len(md) :
          /\ out[i][1] = md[i][1]
          /\ ~HasKey(partial, md[i][1]) => out[i][2] = md[i][2]
    /\ \A i \in Len(md) + 1 .. Len(out) :
          ~HasKey(md, out[i][1]) /\ HasKey(partial, out[i][1])
    /\ \A i, j \in 1 .. Len(out) : out[i][1] = out[j][1] => i = j

\* C12: update_img_metadata and update_roi_metadata merge the dict they are
\* given into the projection's map: every key of the dict ends with the
\* given value, every other key keeps its value and its place, new keys
\* come behind all the keys the map had, and the map returned is the whole
\* resulting map. Either method leaves the other map as it is.
C12_MetadataMerge ==
    [][\A partial \in PartialMaps :
          /\ CallUpdateImgMetadata(partial) =>
                /\ Merged(proj[XY].image_metadata, partial, proj'[XY].image_metadata)
                /\ call'.res = proj'[XY].image_metadata
                /\ proj'[XY].roi_metadata = proj[XY].roi_metadata
          /\ CallUpdateRoiMetadata(partial) =>
                /\ Merged(proj[XY].roi_metadata, partial, proj'[XY].roi_metadata)
                /\ call'.res = proj'[XY].roi_metadata
                /\ proj'[XY].image_metadata = proj[XY].image_metadata]_vars

\* both maps hold both keys, in different orders, and an update of the
\* ROI's map returned the map as it is now
C12_Witness ==
    /\ call.op = "update_roi_metadata"
    /\ proj[XY].image_metadata = << <<"Slice", "2">>, <<"Area", "1">> >>
    /\ proj[XY].roi_metadata = << <<"Area", "2">>, <<"Slice", "1">> >>
    /\ call.res = proj[XY].roi_metadata

(***************************************************************************)
(* Properties of the window, under SpecWindow                              *)
(***************************************************************************)
\* w is the fraction num / den (den > 0) with what is behind the point cut
\* off: the whole number next to it on the side of 0
IsTruncation(w, num, den) ==
    /\ num >= 0 => (w >= 0 /\ w * den <= num /\ num < (w + 1) * den)
    /\ num < 0 => (w <= 0 /\ w * den >= num /\ num > (w - 1) * den)

\* the levels (min, max) give the window (width, center): width is max - min
\* cut to a whole number, center is min + width / 2 cut to a whole number
IsWindow(levels, width, center) ==
    /\ IsTruncation(width, levels[2] - levels[1], 2)
    /\ IsTruncation(center, levels[1] + width, 2)

\* C13: for every pair of levels the histogram is given, the handler ends
\* and writes to 'Window Width' the difference max - min cut to a whole
\* number, and to 'Window Level' min + width / 2 cut to a whole number,
\* with the width already cut; the levels (0, 4000) give 4000 and 2000, the
\* levels (1000, 3000) give 2000 and 2000.
C13_WindowComputation ==
    [][\A plain \in Plain, levels \in UserLevels :
          HistogramChanged(plain, levels) =>
              /\ \E width \in ((levels[2] - levels[1]) \div 2) - 1
                                .. ((levels[2] - levels[1]) \div 2) + 1 :
                    \E center \in ((levels[1] + width) \div 2) - 1
                                    .. ((levels[1] + width) \div 2) + 1 :
                        /\ IsWindow(levels, width, center)
                        /\ Get(proj'[plain].image_metadata, "Window Width") = ToString(width)
                        /\ Get(proj'[plain].image_metadata, "Window Level") = ToString(center)
              /\ levels = <<0, 8000>> =>
                    /\ Get(proj'[plain].image_metadata, "Window Width") = "4000"
                    /\ Get(proj'[plain].image_metadata, "Window Level") = "2000"
              /\ levels = <<2000, 6000>> =>
                    /\ Get(proj'[plain].image_metadata, "Window Width") = "2000"
                    /\ Get(proj'[plain].image_metadata, "Window Level") = "2000"]_vars

\* the histogram of the XZ widget was given the levels (-3, 0): the window
\* is 3 wide and its center, -1.5, is written as -1
C13_Witness ==
    /\ widget[XZ].histogram_is_visible
    /\ widget[XZ].levels = <<-6, 0>>
    /\ Get(proj[XZ].image_metadata, "Window Width") = "3"
    /\ Get(proj[XZ].image_metadata, "Window Level") = "-1"

(***************************************************************************)
(* Properties of the ROI's statistics, under Spec                          *)
(***************************************************************************)
\* every sample of the 2-d array a is v
IsConstant(a, v) == \A p \in DOMAIN a.at : a.at[p] = v

\* C14: every ROI update with the ROI visible writes to 'Mean' and to
\* 'Std Dev' the mean and the population standard deviation of the whole
\* sub-array under the ROI, whether the footprint is the recorded one or
\* not; a sub-array whose samples are all v gives the mean v and the
\* standard deviation 0.
C14_StatisticsRecomputed ==
    [][\A plain \in Plain, roi \in UserRois :
          RoiMoved(plain, roi) =>
              /\ Get(proj'[plain].roi_metadata, "Mean")
                    = MeanStr(GetArrayRegion(roi, proj[plain].current_slice_image))
              /\ Get(proj'[plain].roi_metadata, "Std Dev")
                    = StdStr(GetArrayRegion(roi, proj[plain].current_slice_image))
              /\ \A v \in 0 .. MaxLoadSlices * MaxDim * MaxDim :
                    (/\ Size2(GetArrayRegion(roi, proj[plain].current_slice_image)) > 0
                     /\ IsConstant(GetArrayRegion(roi, proj[plain].current_slice_image), v)) =>
                        /\ Get(proj'[plain].roi_metadata, "Mean") = ToString(v) \o ".00"
                        /\ Get(proj'[plain].roi_metadata, "Std Dev") = "0.00"]_vars

(***************************************************************************)
(* The model and the slicing on their own: a volume built from a series of *)
(* slices of one shape, with any quarter turn, is stored once with         *)
(* set_model_matrix; projections are added with add_new_projection; and    *)
(* slices of any plane are asked for with change_slice_handle and with     *)
(* __orthogonal_slicing                                                    *)
(***************************************************************************)
\* the name of a plane that is none of the three of helpers/enums.py
CustomPlains == {"OBLIQUE"}

PlainNames == Plain \cup CustomPlains

\* Model.add_new_projection
AddNewProjection(S, plain_name) ==
    IF plain_name \in DOMAIN S.proj THEN [st |-> S, err |-> "ValueError"]
    ELSE [st |-> [S EXCEPT !.proj = [p \in DOMAIN S.proj \cup {plain_name} |->
                                        IF p = plain_name THEN NewProjectionModel(plain_name)
                                        ELSE S.proj[p]]],
          err |-> ""]

\* the series the volume is built from
ModelShapeSeqs ==
    {sh \in ShapeSeqs : Len(sh) >= 1 /\ \A i \in 1 .. Len(sh) : sh[i] = sh[1]}

InitModel ==
    /\ InitSession
    /\ tab = XY
    /\ build = NoBuild
    /\ call = NoCall

\* model.set_model_matrix(get_ct_model_as_matrix(ct_slices, rot_k))
CallSetModelMatrix(shapes, rot_k) ==
    /\ IsNoneArr(matrix_3d)
    /\ GetCtModelAsMatrix(MkSeries(shapes, FullHeader), rot_k).ok
    /\ Becomes(SetModelMatrix(Session,
                              GetCtModelAsMatrix(MkSeries(shapes, FullHeader), rot_k).val))
    /\ call' = [op |-> "set_model_matrix", err |-> "", res |-> <<>>]
    /\ UNCHANGED <<tab, build>>

\* model.add_new_projection(plain_name)
CallAddNewProjection(plain_name) ==
    /\ Becomes(AddNewProjection(Session, plain_name).st)
    /\ call' = [op |-> "add_new_projection",
                err |-> AddNewProjection(Session, plain_name).err, res |-> <<>>]
    /\ UNCHANGED <<tab, build>>

\* controller.change_slice_handle(n, plain)
CallChangeSliceHandle(n, plain) ==
    /\ Becomes(ChangeSliceHandle(Session, n, plain).st)
    /\ call' = [op |-> "change_slice_handle",
                err |-> ChangeSliceHandle(Session, n, plain).err, res |-> <<>>]
    /\ UNCHANGED <<tab, build>>

\* controller.__orthogonal_slicing(n, plain)
CallOrthogonalSlicing(n, plain) ==
    /\ call' = [op |-> "orthogonal_slicing",
                err |-> OrthogonalSlicing(matrix_3d, n, plain).err, res |-> <<>>]
    /\ UNCHANGED <<matrix_3d, patient_metadata, examination_metadata, proj, widget,
                   main_window, tab, build>>

NextModel ==
    \/ \E shapes \in ModelShapeSeqs, rot_k \in 0 .. 3 : CallSetModelMatrix(shapes, rot_k)
    \/ \E plain_name \in PlainNames : CallAddNewProjection(plain_name)
    \/ \E n \in 0 .. MaxDim, plain \in PlainNames : CallChangeSliceHandle(n, plain)
    \/ \E n \in 0 .. MaxDim, plain \in PlainNames : CallOrthogonalSlicing(n, plain)

SpecModel == InitModel /\ [][NextModel]_vars

(***************************************************************************)
(* Properties of the model and of the slicing, under SpecModel             *)
(***************************************************************************)
\* C15: asking for a slice of a plane that is none of the three orthogonal
\* ones, also of one that add_new_projection registered, fails with the
\* error of the slicing (the AssertionError of __orthogonal_slicing), and
\* leaves the volume and every projection as they were.
C15_InvalidPlane ==
    [][\A n \in 0 .. MaxDim, plain \in CustomPlains :
          /\ CallOrthogonalSlicing(n, plain) => call'.err = "AssertionError"
          /\ CallChangeSliceHandle(n, plain) =>
                /\ call'.err = "AssertionError"
                /\ matrix_3d' = matrix_3d
                /\ proj' = proj]_vars

(***************************************************************************)
(* Properties of the projections' bookkeeping, under Spec                  *)
(***************************************************************************)
\* C16: once a load has succeeded (the window shows the working area),
\* after any slider, ROI and ROI-mode events and any further loads, the
\* number n of the current slice of every projection is in 0 .. slice
\* count - 1.
C16_SliceIndexInRange ==
    main_window.working_area =>
        \A p \in Plain :
            /\ 0 <= proj[p].current_slice_num
            /\ proj[p].current_slice_num <= proj[p].slices_count - 1

(***************************************************************************)
(* Properties of the projections' shapes, under SpecModel                  *)
(***************************************************************************)
\* the projection of plane p has the in-plane size (w, h) and the slice
\* count d, and every one of its slices has that size
ProjectionDerived(p, w, h, d) ==
    /\ proj[p].slices_width = w
    /\ proj[p].slices_height = h
    /\ proj[p].slices_count = d
    /\ \A n \in 0 .. d - 1 :
          /\ OrthogonalSlicing(matrix_3d, n, p).ok
          /\ OrthogonalSlicing(matrix_3d, n, p).val.shape = <<w, h>>

\* C17: whenever a volume of shape (Nx, Ny, Nz) is stored, XY has the
\* in-plane size (Nx, Ny) and Nz slices, XZ has (Nx, Nz) and Ny slices, YZ
\* has (Ny, Nz) and Nx slices; for each plane every slice with an index in
\* [0, slice count) has the projection's in-plane size; and width x height
\* x slice count is the same for the three projections.
C17_ProjectionBookkeeping ==
    ~IsNoneArr(matrix_3d) =>
        /\ ProjectionDerived(XY, matrix_3d.shape[1], matrix_3d.shape[2], matrix_3d.shape[3])
        /\ ProjectionDerived(XZ, matrix_3d.shape[1], matrix_3d.shape[3], matrix_3d.shape[2])
        /\ ProjectionDerived(YZ, matrix_3d.shape[2], matrix_3d.shape[3], matrix_3d.shape[1])
        /\ \A p, q \in Plain :
              proj[p].slices_width * proj[p].slices_height * proj[p].slices_count
                  = proj[q].slices_width * proj[q].slices_height * proj[q].slices_count

\* a volume whose three dimensions are all different is stored, and a YZ
\* slice was taken from it and is shown
C17_Witness ==
    /\ ~IsNoneArr(matrix_3d)
    /\ matrix_3d.shape = <<1, 2, 3>>
    /\ proj[YZ].current_slice_image.shape = <<2, 3>>
    /\ call.op = "change_slice_handle"
    /\ call.err = ""

(***************************************************************************)
(* Properties of the projections' ownership, under SpecWindow              *)
(***************************************************************************)
\* the session with the projections of the other planes as new ones
Isolated(plain) ==
    [Session EXCEPT !.proj = [q \in Plain |->
                                IF q = plain THEN proj[q] ELSE NewProjectionModel(q)]]

\* the volume and the projections of the other planes are left as they are
OthersKept(plain) ==
    /\ matrix_3d' = matrix_3d
    /\ \A q \in Plain \ {plain} : proj'[q] = proj[q]

\* C18: a slice change, an ROI update and a window update of one plane
\* leave the volume and the other two projections (current slice, index,
\* both metadata maps, footprint cache) as they are, and what they write to
\* the plane's own projection is what they write when the other two
\* projections hold nothing: nothing is read from them.
C18_ProjectionOwnership ==
    [][\A plain \in Plain :
          /\ \A v \in 0 .. MaxDim :
                SliderMoved(plain, v) =>
                    /\ OthersKept(plain)
                    /\ proj'[plain] =
                          EmitValueChanged([Isolated(plain) EXCEPT
                                               !.widget[plain].slider_value = v],
                                           plain, v).proj[plain]
          /\ \A roi \in UserRois :
                RoiMoved(plain, roi) =>
                    /\ OthersKept(plain)
                    /\ proj'[plain] =
                          EmitRegionChanged([Isolated(plain) EXCEPT !.widget[plain].roi = roi],
                                            plain).proj[plain]
          /\ \A levels \in UserLevels :
                HistogramChanged(plain, levels) =>
                    /\ OthersKept(plain)
                    /\ proj'[plain] =
                          EmitLevelsChanged([Isolated(plain) EXCEPT
                                                !.widget[plain].levels = levels],
                                            plain).proj[plain]]_vars

\* the three projections show slices and hold statistics and windows of
\* their own: in the XZ tab, with the ROI and the histogram on, the slider,
\* the ROI and the levels were moved, and XY still shows its slice 2/2 with
\* the window of the reset
C18_Witness ==
    /\ tab = XZ
    /\ widget[XZ].roi_is_visible
    /\ widget[XZ].histogram_is_visible
    /\ widget[XZ].levels = <<2000, 6000>>
    /\ widget[XZ].roi.size = <<0, 20>>
    /\ Get(proj[XZ].image_metadata, "Slice") = "1/2"
    /\ Get(proj[XZ].image_metadata, "Window Width") = "2000"
    /\ Get(proj[XY].image_metadata, "Slice") = "2/2"
    /\ Get(proj[XY].image_metadata, "Window Width") = "4000"
    /\ Get(proj[XZ].roi_metadata, "Mean") = "nan"

(***************************************************************************)
(* Properties of the ROI's statistics at a slice change, under SpecWindow  *)
(***************************************************************************)
\* C19: when the slider of a projection is moved to n while the ROI is
\* visible, then after all the handlers of the move have run, slice n is
\* the current one and 'Mean' and 'Std Dev' of the projection are the
\* statistics of the region under the ROI in slice n.
C19_RoiFollowsSlice ==
    [][\A plain \in Plain, v \in 0 .. MaxDim :
          (SliderMoved(plain, v) /\ widget[plain].roi_is_visible) =>
              /\ proj'[plain].current_slice_num = v
              /\ Get(proj'[plain].roi_metadata, "Mean")
                    = MeanStr(GetArrayRegion(widget'[plain].roi,
                                             proj'[plain].current_slice_image))
              /\ Get(proj'[plain].roi_metadata, "Std Dev")
                    = StdStr(GetArrayRegion(widget'[plain].roi,
                                            proj'[plain].current_slice_image))]_vars

(***************************************************************************)
(* Properties of the ROI's area over loads, under SpecWindow               *)
(***************************************************************************)
\* C20: after any loads and ROI events, an ROI update of a projection with
\* the ROI visible leaves in 'Area' the footprint's width x col_spacing x
\* height x row_spacing, with the projection's current spacings; also the
\* first update after a load, when the footprint is the one recorded
\* before the load.
C20_AreaAfterReload ==
    [][\A plain \in Plain, roi \in UserRois :
          RoiMoved(plain, roi) =>
              /\ proj'[plain].col_spacing # <<>>
              /\ proj'[plain].row_spacing # <<>>
              /\ Get(proj'[plain].roi_metadata, "Area") =
                    Fmt2(Footprint(roi)[1] * proj'[plain].col_spacing[1]
                         * Footprint(roi)[2] * proj'[plain].row_spacing[1]) \o " mm2"]_vars

(***************************************************************************)
(* Properties of the slices shown after a load, under SpecWindow           *)
(***************************************************************************)
\* C21: when load_model_handle has ended without an error, on the first
\* load or on a later one, every projection holds the index slice count
\* // 2, its current slice is the cross-section of the new volume at that
\* index, and its 'Slice' entry is '(index + 1)/(slice count)'; also when
\* the slider stood at that position before the load.
C21_SliceAfterLoad ==
    [][\A shapes \in WindowShapeSeqs :
          (/\ Load(shapes, FullHeader)
           /\ LoadModelHandle(Session, MkSeries(shapes, FullHeader)).err = "") =>
              \A p \in Plain :
                  /\ proj'[p].slices_count >= 1
                  /\ proj'[p].current_slice_num = proj'[p].slices_count \div 2
                  /\ proj'[p].current_slice_image
                        = OrthogonalSlicing(matrix_3d', proj'[p].slices_count \div 2, p).val
                  /\ Get(proj'[p].image_metadata, "Slice")
                        = ToString((proj'[p].slices_count \div 2) + 1) \o "/"
                            \o ToString(proj'[p].slices_count)]_vars

=============================================================================
